---- MODULE Spec2Model ----
(***************************************************************************)
(* Model of packages/@contentlayer/core/src/commands/generate-dotpkg.ts:   *)
(* the generation of the .contentlayer package.  One generation session    *)
(* (generateDotpkg) owns one writtenFilesCache; every emission of the      *)
(* upstream documents cache starts one run of writeFilesForCache.          *)
(*                                                                         *)
(* Strings that the code takes apart (document ids, file names) are        *)
(* sequences of one-character strings.  A file path is a record            *)
(* [dir, name] relative to targetPath: dir is the sequence of directory    *)
(* names, name the sequence of pieces of the file name.                    *)
(***************************************************************************)
EXTENDS Integers, Sequences, FiniteSets, TLC

VARIABLES
    schemaDef,          \* Seq of DocumentDef: Object.values(schemaDef.documentDefMap)
    emitted,            \* number of emissions of source.fetchData so far
    errored,            \* the Observable returned by generateDotpkg has errored
    cyc,                \* runs of writeFilesForCache, by emission number
    writtenFilesCache,  \* FilePath -> DocumentHash
    file,               \* the file system: file path -> content
    dirs,               \* the file system: existing directories
    faults,             \* file-system errors injected so far
    nm                  \* naming / rendering harness (pure-function specifications)

vars == <<schemaDef, emitted, errored, cyc, writtenFilesCache, file, dirs, faults, nm>>

-----------------------------------------------------------------------------
(* Bounds *)

MaxCycles == 2          \* emissions of the documents cache in a session
MaxOutstanding == 1     \* an emission arrives when the runs before have at most this many operations left
MaxDocs == 1            \* documents in one emitted documents cache
MaxFaults == 1          \* file-system anomalies (an error, a file in place of a directory) in a session
MaxLen == 3             \* length of the ids drawn for the naming functions

-----------------------------------------------------------------------------
(* Naming engine *)

Digits == {"0", "1", "2", "3", "4", "5", "6", "7", "8", "9"}

(* /^[0-9]/.test(str) ? '_' + str : str *)
leftPadWithUnderscoreIfStartsWithNumber(str) ==
    IF Len(str) > 0 /\ str[1] \in Digits THEN <<"_">> \o str ELSE str

(* str.replace(/\//g, '__') *)
RECURSIVE replaceSlashes(_)
replaceSlashes(str) ==
    IF str = <<>> THEN <<>>
    ELSE (IF Head(str) = "/" THEN <<"_", "_">> ELSE <<Head(str)>>)
         \o replaceSlashes(Tail(str))

idToFileName_firstOnly(id) ==
    LET s == leftPadWithUnderscoreIfStartsWithNumber(id)
        RECURSIVE first(_, _)
        first(t, done) ==
            IF t = <<>> THEN <<>>
            ELSE IF Head(t) = "/" /\ ~done THEN <<"_", "_">> \o first(Tail(t), TRUE)
            ELSE <<Head(t)>> \o first(Tail(t), done)
    IN first(s, FALSE)

idToFileName(id) == replaceSlashes(leftPadWithUnderscoreIfStartsWithNumber(id))

(* inflection.singularize / pluralize and the first-character helpers of     *)
(* @contentlayer/utils, on the type names of the model.                      *)
singularize(name) == name
pluralize(name) == IF name = "Post" THEN "Posts" ELSE IF name = "Author" THEN "Authors" ELSE name
lowercaseFirstChar(name) == IF name = "Author" THEN "author" ELSE IF name = "Post" THEN "post" ELSE name
uppercaseFirstChar(name) == name

getDataVariableName(docDef) ==
    IF docDef.isSingleton
    THEN <<lowercaseFirstChar(singularize(docDef.name))>>
    ELSE <<"all", uppercaseFirstChar(pluralize(docDef.name))>>

-----------------------------------------------------------------------------
(* Paths, relative to targetPath *)

withPrefix(dir, name) == [dir |-> dir, name |-> name]

TargetDir == <<>>
TypesDir == <<"types">>
DataDir == <<"data">>
dataDirPath(docDef) == <<"data", docDef.name>>

Ancestors(dir) == {SubSeq(dir, 1, k) : k \in 0..Len(dir)}

jsonFilePath(typeName, id) == withPrefix(<<"data", typeName>>, idToFileName(id) \o <<".json">>)
barrelFilePath(docDef) == withPrefix(DataDir, getDataVariableName(docDef) \o <<".js">>)

PackageJsonPath == withPrefix(TargetDir, <<"package.json">>)
TypesDtsPath == withPrefix(TypesDir, <<"index.d.ts">>)
TypesJsPath == withPrefix(TypesDir, <<"index.js">>)
DataDtsPath == withPrefix(DataDir, <<"index.d.ts">>)
DataJsPath == withPrefix(DataDir, <<"index.js">>)

-----------------------------------------------------------------------------
(* Sequence helpers *)

RECURSIVE SelectItems(_, _)
SelectItems(items, typeName) ==
    IF items = <<>> THEN <<>>
    ELSE (IF Head(items).typeName = typeName THEN <<Head(items).id>> ELSE <<>>)
         \o SelectItems(Tail(items), typeName)

Range(s) == {s[i] : i \in 1..Len(s)}

Put(f, k, v) == [x \in DOMAIN f \cup {k} |-> IF x = k THEN v ELSE f[x]]

-----------------------------------------------------------------------------
(* Template renderer: the content of each generated file *)

NoHash == <<>>

makePackageJson == [kind |-> "package.json"]
makeHelperTypes == [kind |-> "types/index.js"]

(* the document types sorted by name; the model's names are Author < Post *)
sortedNames(defs) ==
    (IF "Author" \in {d.name : d \in Range(defs)} THEN <<"Author">> ELSE <<>>)
    \o (IF "Post" \in {d.name : d \in Range(defs)} THEN <<"Post">> ELSE <<>>)

makeTypes(defs) == [kind |-> "types/index.d.ts", documentTypes |-> sortedNames(defs)]

makeDataTypes(defs) ==
    [kind |-> "data/index.d.ts",
     dataConsts |-> [i \in 1..Len(defs) |->
        [name |-> getDataVariableName(defs[i]), type |-> defs[i].name, array |-> ~defs[i].isSingleton]]]

makeIndexJs(defs) ==
    [kind |-> "data/index.js",
     reexports |-> [i \in 1..Len(defs) |-> getDataVariableName(defs[i])],
     allDocuments |-> [i \in 1..Len(defs) |->
        [spread |-> ~defs[i].isSingleton, name |-> getDataVariableName(defs[i])]]]

(* camelCase(_, { stripRegexp: /[^A-Z0-9\_]/gi }) of the camel-case package, on  *)
(* the alphabet of the model: "-" is stripped and starts a new word, the first *)
(* letter of every word but the first is upper-cased, and a later word that    *)
(* starts with a digit gets a "_" in front.                                     *)
upperCaseChar(ch) ==
    IF ch = "a" THEN "A" ELSE IF ch = "b" THEN "B" ELSE IF ch = "p" THEN "P"
    ELSE IF ch = "q" THEN "Q" ELSE ch

RECURSIVE camelWords(_, _, _)
camelWords(str, atStart, first) ==
    IF str = <<>> THEN <<>>
    ELSE IF Head(str) = "-" THEN camelWords(Tail(str), TRUE, first)
    ELSE (IF atStart /\ ~first
          THEN (IF Head(str) \in Digits THEN <<"_", Head(str)>> ELSE <<upperCaseChar(Head(str))>>)
          ELSE <<Head(str)>>)
         \o camelWords(Tail(str), FALSE, FALSE)

RECURSIVE stripLeading(_)
stripLeading(str) ==
    IF str # <<>> /\ Head(str) = "-" THEN stripLeading(Tail(str)) ELSE str

camelCase(str) == camelWords(stripLeading(str), TRUE, TRUE)

makeVariableName(id) == camelCase(idToFileName(id))

(* idToFileName(undefined) throws a TypeError: a singleton type without a document *)
makeDataExportFileThrows(docDef, documentIds) ==
    docDef.isSingleton /\ documentIds = <<>>

makeDataExportFile(docDef, documentIds) ==
    IF docDef.isSingleton
    THEN [kind |-> "reexport", name |-> getDataVariableName(docDef),
          from |-> jsonFilePath(docDef.name, documentIds[1])]
    ELSE [kind |-> "collection", name |-> getDataVariableName(docDef),
          imports |-> [i \in 1..Len(documentIds) |->
              [binding |-> makeVariableName(documentIds[i]),
               from |-> jsonFilePath(docDef.name, documentIds[i])]]]

(* JSON.stringify(document, null, 2): the document itself; its body is named  *)
(* by the content hash the upstream computed for it.                          *)
jsonContent(item) ==
    [kind |-> "json", _id |-> item.id, _typeName |-> item.typeName, body |-> item.documentHash]

-----------------------------------------------------------------------------
(* writeFilesForCache, lines 56-75 and 82-93: the files of one cycle *)

GeneratedFile(filePath, content, documentHash) ==
    [filePath |-> filePath, content |-> content, documentHash |-> documentHash]

dataBarrelFiles(defs, items) ==
    [i \in 1..Len(defs) |->
        GeneratedFile(barrelFilePath(defs[i]),
                      makeDataExportFile(defs[i], SelectItems(items, defs[i].name)),
                      NoHash)]

dataJsonFiles(items) ==
    [i \in 1..Len(items) |->
        GeneratedFile(jsonFilePath(items[i].typeName, items[i].id),
                      jsonContent(items[i]),
                      <<items[i].documentHash>>)]

fixedFiles(defs) ==
    << GeneratedFile(PackageJsonPath, makePackageJson, NoHash),
       GeneratedFile(TypesDtsPath, makeTypes(defs), NoHash),
       GeneratedFile(TypesJsPath, makeHelperTypes, NoHash),
       GeneratedFile(DataDtsPath, makeDataTypes(defs), NoHash),
       GeneratedFile(DataJsPath, makeIndexJs(defs), NoHash) >>

allFiles(defs, items) == fixedFiles(defs) \o dataBarrelFiles(defs, items) \o dataJsonFiles(items)

renderThrows(defs, items) ==
    \E i \in 1..Len(defs) : makeDataExportFileThrows(defs[i], SelectItems(items, defs[i].name))

dirsToMake(defs) == {TypesDir} \cup {dataDirPath(defs[i]) : i \in 1..Len(defs)}

-----------------------------------------------------------------------------
(* Write cache: writeFileWithWrittenFilesCache *)

(* line 144 *)
shouldSkip_pathOnly(cache, filePath, documentHash) ==
    documentHash # NoHash /\ filePath \in DOMAIN cache

shouldSkip(cache, filePath, documentHash) ==
    documentHash # NoHash /\ filePath \in DOMAIN cache /\ cache[filePath] = documentHash[1]

(* lines 149-151: if (documentHash) writtenFilesCache[filePath] = documentHash *)
recordHash(cache, filePath, documentHash) ==
    IF documentHash # NoHash /\ documentHash[1] # ""
    THEN Put(cache, filePath, documentHash[1])
    ELSE cache

(* line 148 throws: lines 149-151 are not reached *)
writeRejected_recordsHash(cache, filePath, documentHash) ==
    recordHash(cache, filePath, documentHash)

writeRejected(cache, filePath, documentHash) == cache

(* line 124: e.code !== 'EEXIST' rethrows *)
mkdirThrows_strict(res) == res # "ok"

mkdirThrows(res) == res \notin {"ok", "EEXIST"}

-----------------------------------------------------------------------------
(* Inputs of a session *)

AuthorDef == [name |-> "Author", isSingleton |-> TRUE]
PostDef == [name |-> "Post", isSingleton |-> FALSE]

Schemas == { <<>>, <<PostDef>> }

DocIds == << <<"p", "/", "q">>, <<"p", "_", "_", "q">>, <<"1">> >>
Hashes == {"", "h1", "h2"}

CacheItem(id, typeName, documentHash) ==
    [id |-> id, typeName |-> typeName, documentHash |-> documentHash]

(* the documents caches the upstream may emit: every document's type is a key *)
(* of the schema, ids are the keys of cacheItemsMap and so distinct           *)
RECURSIVE CachesFrom(_, _)
CachesFrom(k, typeNames) ==
    IF k > Len(DocIds) THEN { <<>> }
    ELSE LET rest == CachesFrom(k + 1, typeNames)
         IN rest \cup { <<CacheItem(DocIds[k], t, h)>> \o r :
                            t \in typeNames, h \in Hashes, r \in rest }

CachesOf == [defs \in Schemas |->
    {c \in CachesFrom(1, {d.name : d \in Range(defs)}) : Len(c) <= MaxDocs}]

Caches(defs) == CachesOf[defs]

-----------------------------------------------------------------------------
(* State of one run of writeFilesForCache *)

NoCycle ==
    [phase |-> "none", items |-> <<>>, mkPending |-> {}, ensured |-> {},
     pend |-> {}, issued |-> {}, skipped |-> {}, failedAt |-> "none",
     mkErrors |-> {}, afterSettled |-> FALSE, cacheBefore |-> << >>]

Cycles == 1..MaxCycles

Outstanding(c) == Cardinality(cyc[c].mkPending) + Cardinality(cyc[c].pend)

(* operations a run has still to do: its writes are issued when mkdir is through *)
Remaining(c) ==
    Outstanding(c)
    + (IF cyc[c].phase = "mkdir" THEN Len(allFiles(schemaDef, cyc[c].items)) ELSE 0)

RECURSIVE SumRemaining(_)
SumRemaining(c) == IF c = 0 THEN 0 ELSE Remaining(c) + SumRemaining(c - 1)

Settled(c) == cyc[c].phase = "resolved" /\ Outstanding(c) = 0

Pending(file_) == [filePath |-> file_.filePath, content |-> file_.content,
                   documentHash |-> file_.documentHash, landed |-> FALSE]

(* lines 80-93: every writeFile call runs up to its first await, so all cache  *)
(* look-ups of a cycle happen before any of its writes settles                 *)
startWrites(rec, cache) ==
    LET files == Range(allFiles(schemaDef, rec.items))
        skip == {f \in files : shouldSkip(cache, f.filePath, f.documentHash)}
    IN [rec EXCEPT !.phase = "write",
                   !.skipped = {f.filePath : f \in skip},
                   !.issued = {f.filePath : f \in files \ skip},
                   !.pend = {Pending(f) : f \in files \ skip}]

Init ==
    /\ schemaDef \in Schemas
    /\ emitted = 0
    /\ errored = FALSE
    /\ cyc = [c \in Cycles |-> NoCycle]
    /\ writtenFilesCache = << >>
    /\ file = << >>
    /\ dirs = {TargetDir}
    /\ faults = 0
    /\ nm = [op |-> "none"]

(* switchMap(writeFilesForCache) on an emission of combineLatest: the run      *)
(* starts at once, and the promise of the run before is not awaited.           *)
Emit(items) ==
    /\ ~errored
    /\ emitted < MaxCycles
    /\ SumRemaining(emitted) <= MaxOutstanding
    /\ emitted' = emitted + 1
    /\ LET n == emitted + 1
           base == [NoCycle EXCEPT !.items = items,
                                   !.afterSettled = (emitted > 0 /\ Settled(emitted)),
                                   !.cacheBefore = writtenFilesCache]
           old == [c \in Cycles |->
                     IF c < emitted /\ Outstanding(c) = 0 THEN NoCycle ELSE cyc[c]]
       IN IF renderThrows(schemaDef, items)
          THEN /\ cyc' = [old EXCEPT ![n] = [base EXCEPT !.phase = "rejected",
                                                         !.failedAt = "render"]]
               /\ errored' = TRUE
          ELSE /\ cyc' = [old EXCEPT ![n] = [base EXCEPT !.phase = "mkdir",
                                                         !.mkPending = dirsToMake(schemaDef)]]
               /\ errored' = errored
    /\ UNCHANGED <<schemaDef, writtenFilesCache, file, dirs, faults, nm>>

(* mkdir, lines 120-128, and the continuation of line 78 *)
MkdirSettle(c, d, res) ==
    /\ d \in cyc[c].mkPending
    /\ res = "EEXIST" => d \notin dirs
    /\ res # "ok" => faults < MaxFaults
    /\ faults' = IF res # "ok" THEN faults + 1 ELSE faults
    /\ dirs' = IF res = "ok" THEN dirs \cup Ancestors(d) ELSE dirs
    /\ LET rec == cyc[c]
           left == rec.mkPending \ {d}
       IN IF mkdirThrows(res)
          THEN /\ cyc' = [cyc EXCEPT ![c] =
                    IF rec.phase = "mkdir"
                    THEN [rec EXCEPT !.mkPending = left, !.mkErrors = @ \cup {<<d, res>>},
                                     !.phase = "rejected", !.failedAt = "mkdir"]
                    ELSE [rec EXCEPT !.mkPending = left, !.mkErrors = @ \cup {<<d, res>>}]]
               /\ errored' = (errored \/ (rec.phase = "mkdir" /\ c = emitted))
          ELSE /\ cyc' = [cyc EXCEPT ![c] =
                    LET r2 == [rec EXCEPT !.mkPending = left,
                                          !.mkErrors = IF res = "ok" THEN @ ELSE @ \cup {<<d, res>>},
                                          !.ensured = rec.ensured \cup Ancestors(d)]
                    IN IF rec.phase = "mkdir" /\ left = {}
                       THEN startWrites(r2, writtenFilesCache)
                       ELSE r2]
               /\ errored' = errored
    /\ UNCHANGED <<schemaDef, emitted, writtenFilesCache, file, nm>>

Contended(c, w) ==
    \E c2 \in Cycles : \E w2 \in cyc[c2].pend :
        w2.filePath = w.filePath /\ (c2 # c \/ w2 # w)

(* fs.writeFile, line 148: the data of a write reaches the file while another *)
(* write of the same path is in flight; which lands last is the file's content *)
WriteLand(c, w) ==
    /\ w \in cyc[c].pend
    /\ ~w.landed
    /\ w.filePath.dir \in dirs
    /\ Contended(c, w)
    /\ file' = Put(file, w.filePath, w.content)
    /\ cyc' = [cyc EXCEPT ![c].pend = (@ \ {w}) \cup {[w EXCEPT !.landed = TRUE]}]
    /\ UNCHANGED <<schemaDef, emitted, errored, writtenFilesCache, dirs, faults, nm>>

(* lines 148-151: fs.writeFile resolves and the hash is recorded *)
WriteOk(c, w) ==
    /\ w \in cyc[c].pend
    /\ w.filePath.dir \in dirs
    /\ file' = IF w.landed THEN file ELSE Put(file, w.filePath, w.content)
    /\ writtenFilesCache' = recordHash(writtenFilesCache, w.filePath, w.documentHash)
    /\ LET left == cyc[c].pend \ {w}
       IN cyc' = [cyc EXCEPT ![c].pend = left,
                             ![c].phase = IF @ = "write" /\ left = {} THEN "resolved" ELSE @]
    /\ UNCHANGED <<schemaDef, emitted, errored, dirs, faults, nm>>

(* line 148: fs.writeFile rejects (the file could not be opened: it is left as *)
(* it was); Promise.all of line 82 rejects with it, the other writes go on.   *)
WriteFail(c, w) ==
    /\ w \in cyc[c].pend
    /\ ~w.landed
    /\ w.filePath.dir \in dirs => faults < MaxFaults
    /\ faults' = IF w.filePath.dir \in dirs THEN faults + 1 ELSE faults
    /\ cyc' = [cyc EXCEPT ![c].pend = @ \ {w},
                          ![c].phase = IF @ = "write" THEN "rejected" ELSE @,
                          ![c].failedAt = IF cyc[c].phase = "write" THEN "write" ELSE @]
    /\ errored' = (errored \/ (cyc[c].phase = "write" /\ c = emitted))
    /\ writtenFilesCache' = writeRejected(writtenFilesCache, w.filePath, w.documentHash)
    /\ UNCHANGED <<schemaDef, emitted, file, dirs, nm>>

Next ==
    \/ /\ ~errored /\ emitted < MaxCycles
       /\ \E items \in Caches(schemaDef) : Emit(items)
    \/ \E c \in Cycles : \E d \in cyc[c].mkPending : \E res \in {"ok", "EEXIST", "ERR"} :
          MkdirSettle(c, d, res)
    \/ \E c \in Cycles : \E w \in cyc[c].pend : WriteLand(c, w)
    \/ \E c \in Cycles : \E w \in cyc[c].pend : WriteOk(c, w)
    \/ \E c \in Cycles : \E w \in cyc[c].pend : WriteFail(c, w)

Spec == Init /\ [][Next]_vars

-----------------------------------------------------------------------------
(* The naming engine on its own: idToFileName applied to every id over a     *)
(* small alphabet, and to the id of the documented example.                  *)

IdAlphabet == {"/", "_", "2", "p"}
ExampleId == <<"2", "0", "2", "4", "/", "p", "o", "s", "t">>
NamingIds == UNION {[1..k -> IdAlphabet] : k \in 0..MaxLen} \cup {ExampleId}

Idle ==
    /\ emitted = 0
    /\ errored = FALSE
    /\ cyc = [c \in Cycles |-> NoCycle]
    /\ writtenFilesCache = << >>
    /\ file = << >>
    /\ dirs = {TargetDir}
    /\ faults = 0

InitNaming ==
    /\ Idle
    /\ schemaDef = <<>>
    /\ nm \in {[op |-> "id", id |-> id] : id \in NamingIds}

ApplyIdToFileName ==
    /\ nm.op = "id"
    /\ nm' = [op |-> "fileName", id |-> nm.id, out |-> idToFileName(nm.id)]
    /\ UNCHANGED <<schemaDef, emitted, errored, cyc, writtenFilesCache, file, dirs, faults>>

SpecNaming == InitNaming /\ [][ApplyIdToFileName]_vars

-----------------------------------------------------------------------------
(* The renderer on its own: the modules of one cycle are rendered, the JSON  *)
(* files are written, and data/index.js is evaluated as a module.            *)

RenderSchemas == { <<AuthorDef, PostDef>>, <<PostDef, AuthorDef>>, <<PostDef>>, <<AuthorDef>> }
RenderIds == { <<"p", "/", "q">>, <<"p", "_", "_", "q">>, <<"p", "-", "q">>, <<"1">> }
MaxRenderDocs == 3

RECURSIVE RenderCachesOfLen(_, _)
RenderCachesOfLen(n, typeNames) ==
    IF n = 0 THEN { <<>> }
    ELSE { Append(c, CacheItem(id, t, "h1")) :
              c \in RenderCachesOfLen(n - 1, typeNames),
              id \in RenderIds, t \in typeNames }

RenderCaches(defs) ==
    { c \in UNION {RenderCachesOfLen(n, {d.name : d \in Range(defs)}) : n \in 0..MaxRenderDocs} :
         \A i, j \in 1..Len(c) : i # j => c[i].id # c[j].id }

InitRender ==
    /\ Idle
    /\ schemaDef \in RenderSchemas
    /\ nm \in {[op |-> "cache", items |-> c] : c \in RenderCaches(schemaDef)}

(* import X from '<path>': the document last written to the JSON file *)
importJson(disk, filePath) == disk[filePath]

(* a module with two import declarations of one binding name does not load *)
barrelLoads(barrel) ==
    barrel.kind = "collection" =>
        \A i, j \in 1..Len(barrel.imports) :
            i # j => barrel.imports[i].binding # barrel.imports[j].binding

(* the value a barrel exports under its data variable name *)
barrelExport(barrel, disk) ==
    IF barrel.kind = "reexport"
    THEN importJson(disk, barrel.from)
    ELSE [i \in 1..Len(barrel.imports) |->
            LET k == CHOOSE k \in 1..Len(barrel.imports) :
                        barrel.imports[k].binding = barrel.imports[i].binding
            IN importJson(disk, barrel.imports[k].from)]

(* export const allDocuments = [author, ...allPosts] *)
RECURSIVE evalAllDocuments(_, _, _)
evalAllDocuments(entries, barrels, disk) ==
    IF entries = <<>> THEN <<>>
    ELSE LET e == Head(entries)
             k == CHOOSE k \in 1..Len(barrels) : barrels[k].content.name = e.name
             v == barrelExport(barrels[k].content, disk)
         IN (IF e.spread THEN v ELSE <<v>>) \o evalAllDocuments(Tail(entries), barrels, disk)

(* the JSON files of the cycle on disk: of the documents written to one path, *)
(* one is the last                                                            *)
Disks(items) ==
    LET paths == {jsonFilePath(items[i].typeName, items[i].id) : i \in 1..Len(items)}
    IN {d \in [paths -> Range(items)] :
           \A q \in paths : jsonFilePath(d[q].typeName, d[q].id) = q}

RenderCycle ==
    /\ nm.op = "cache"
    /\ IF renderThrows(schemaDef, nm.items)
       THEN nm' = [op |-> "threw", items |-> nm.items]
       ELSE \E disk \in Disks(nm.items) :
              LET barrels == dataBarrelFiles(schemaDef, nm.items)
                  loads == \A k \in 1..Len(barrels) : barrelLoads(barrels[k].content)
              IN nm' = [op |-> "rendered", items |-> nm.items, loads |-> loads,
                        allDocuments |->
                           IF loads
                           THEN evalAllDocuments(makeIndexJs(schemaDef).allDocuments, barrels, disk)
                           ELSE <<>>]
    /\ UNCHANGED <<schemaDef, emitted, errored, cyc, writtenFilesCache, file, dirs, faults>>

SpecRender == InitRender /\ [][RenderCycle]_vars

-----------------------------------------------------------------------------
(* Vocabulary of the properties *)

HashlessPaths ==
    {PackageJsonPath, TypesDtsPath, TypesJsPath, DataDtsPath, DataJsPath}
    \cup {barrelFilePath(schemaDef[i]) : i \in 1..Len(schemaDef)}

FilesOf(c) == Range(allFiles(schemaDef, cyc[c].items))

InFlight(filePath) == \E c \in Cycles : \E w \in cyc[c].pend : w.filePath = filePath

(* the step in which run c gets past line 78 and calls writeFile for every file *)
IssuesWrites(c) == cyc[c].phase = "mkdir" /\ cyc'[c].phase = "write"

(* the step in which fs.writeFile of w resolves / rejects in run c *)
Leaves(c, w) ==
    /\ w \in cyc[c].pend
    /\ w \notin cyc'[c].pend
    /\ [w EXCEPT !.landed = TRUE] \notin cyc'[c].pend
Rejects(c, w) == Leaves(c, w) /\ (faults' # faults \/ w.filePath.dir \notin dirs)
Resolves(c, w) == Leaves(c, w) /\ ~Rejects(c, w)

CacheAt(cache, filePath) == IF filePath \in DOMAIN cache THEN <<cache[filePath]>> ELSE <<>>

-----------------------------------------------------------------------------
(* C1: a write request is skipped exactly when it carries a hash and the     *)
(* cache holds that very hash for its path; the files rendered without a     *)
(* hash are issued by every run that reaches its writes and never get a      *)
(* cache entry.                                                              *)
C1_SkippedIffHashMatches ==
    [][ /\ \A c \in Cycles : IssuesWrites(c) =>
             \A f \in FilesOf(c) :
                /\ (Pending(f) \notin cyc'[c].pend) <=>
                      (/\ f.documentHash # NoHash
                       /\ CacheAt(writtenFilesCache, f.filePath) = f.documentHash)
                /\ f.filePath \in HashlessPaths => Pending(f) \in cyc'[c].pend
        /\ DOMAIN writtenFilesCache' \cap HashlessPaths = {} ]_vars

(* a run skipped a document whose hash the cache held, and wrote the rest *)
C1_Witness ==
    \E c \in Cycles :
        /\ cyc[c].skipped # {}
        /\ HashlessPaths \subseteq cyc[c].issued
        /\ \E d \in Cycles : d < c /\ cyc[d].phase = "resolved"

(* C2: after a write that carries a hash succeeds, the cache maps the path   *)
(* to that hash (whatever the string, the empty one included).               *)
C2_HashRecordedAfterWrite ==
    [][ \A c \in Cycles : \A w \in cyc[c].pend :
           (Resolves(c, w) /\ w.documentHash # NoHash)
              => CacheAt(writtenFilesCache', w.filePath) = w.documentHash ]_vars

JsonPathOf(item) == jsonFilePath(item.typeName, item.id)

ChangedIn(c) ==
    {i \in 1..Len(cyc[c].items) : cyc[c].items[i].documentHash # cyc[c - 1].items[i].documentHash}

OneHashChanged(c) ==
    /\ c > 1
    /\ cyc[c].afterSettled
    /\ Len(cyc[c].items) = Len(cyc[c - 1].items)
    /\ \A i \in 1..Len(cyc[c].items) :
          /\ cyc[c].items[i].id = cyc[c - 1].items[i].id
          /\ cyc[c].items[i].typeName = cyc[c - 1].items[i].typeName
    /\ Cardinality(ChangedIn(c)) = 1

(* C3: a run started after a settled run, in which exactly one document has  *)
(* another hash, writes that document's JSON file and no other, records the  *)
(* new hash for it and leaves every other cache entry alone.                 *)
C3_RewritesOnlyChanged ==
    \A c \in Cycles :
        (OneHashChanged(c) /\ Settled(c)) =>
            LET i == CHOOSE j \in ChangedIn(c) : TRUE
                changed == cyc[c].items[i]
            IN /\ cyc[c].issued \ HashlessPaths = {JsonPathOf(changed)}
               /\ CacheAt(writtenFilesCache, JsonPathOf(changed)) = <<changed.documentHash>>
               /\ \A q \in (DOMAIN writtenFilesCache \cup DOMAIN cyc[c].cacheBefore)
                              \ {JsonPathOf(changed)} :
                     CacheAt(writtenFilesCache, q) = CacheAt(cyc[c].cacheBefore, q)

(* C4: no two runs have directory creations or file writes outstanding at    *)
(* the same time.                                                            *)
C4_NotPipelined ==
    \A c1, c2 \in Cycles : (c1 # c2) => ~(Outstanding(c1) > 0 /\ Outstanding(c2) > 0)

C9_CacheMatchesFile ==
    \A filePath \in DOMAIN writtenFilesCache :
        ~InFlight(filePath) =>
            /\ filePath \in DOMAIN file
            /\ file[filePath].kind = "json"
            /\ file[filePath].body = writtenFilesCache[filePath]

(* C10: every write a run issues goes to a directory that the run's mkdir    *)
(* step created or found, and that step is through before the first write.   *)
C10_WritesIntoEnsuredDirs ==
    \A c \in Cycles :
        /\ \A filePath \in cyc[c].issued : filePath.dir \in cyc[c].ensured
        /\ cyc[c].issued # {} => cyc[c].mkPending = {}

-----------------------------------------------------------------------------
RECURSIVE ItemsOfType(_, _)
ItemsOfType(items, typeName) ==
    IF items = <<>> THEN <<>>
    ELSE (IF Head(items).typeName = typeName THEN <<Head(items)>> ELSE <<>>)
         \o ItemsOfType(Tail(items), typeName)

RECURSIVE C7_Expected(_, _)
C7_Expected(defs, items) ==
    IF defs = <<>> THEN <<>>
    ELSE ItemsOfType(items, Head(defs).name) \o C7_Expected(Tail(defs), items)

SingletonsHaveOne(defs, items) ==
    \A i \in 1..Len(defs) :
        defs[i].isSingleton => Len(ItemsOfType(items, defs[i].name)) = 1

(* C7: the aggregate of data/index.js is the concatenation, in schema order, *)
(* of each singleton type's document and each collection type's documents    *)
(* in input order.                                                           *)
C7_AggregateIsConcatenation ==
    (nm.op = "rendered" /\ SingletonsHaveOne(schemaDef, nm.items)) =>
        /\ nm.loads
        /\ nm.allDocuments = C7_Expected(schemaDef, nm.items)

RECURSIVE C8_EverySlashReplaced(_)
C8_EverySlashReplaced(id) ==
    IF id = <<>> THEN <<>>
    ELSE LET last == id[Len(id)]
         IN C8_EverySlashReplaced(SubSeq(id, 1, Len(id) - 1))
            \o (IF last = "/" THEN <<"_", "_">> ELSE <<last>>)

C8_Claimed(id) ==
    LET r == C8_EverySlashReplaced(id)
    IN IF r # <<>> /\ r[1] \in Digits THEN <<"_">> \o r ELSE r

(* C8: idToFileName(id) is the id with every "/" replaced by "__" and then,  *)
(* if that starts with a digit, a "_" in front; it holds no "/" and does not *)
(* start with a digit; "2024/post" gives "_2024__post".                       *)
C8_FileNameForId ==
    nm.op = "fileName" =>
        /\ nm.out = C8_Claimed(nm.id)
        /\ \A i \in 1..Len(nm.out) : nm.out[i] # "/"
        /\ nm.out # <<>> => nm.out[1] \notin Digits
        /\ nm.id = ExampleId =>
              nm.out = <<"_", "2", "0", "2", "4", "_", "_", "p", "o", "s", "t">>

C8_Witness ==
    /\ nm.op = "fileName"
    /\ nm.id = <<"2", "/", "/">>
    /\ nm.out = <<"_", "2", "_", "_", "_", "_">>

====
